---- MODULE Spec2Model ----
(***************************************************************************)
(* BGAW: GitHub workflow webhooks aggregated into one Discord message per  *)
(* commit.  The model follows src/main.py at the granularity of the event  *)
(* loop: one action per run of a request handler between two suspension    *)
(* points (an outbound webhook call, or a wait on a held asyncio.Lock).     *)
(***************************************************************************)
EXTENDS Integers, Sequences, FiniteSets, TLC

\* ------------------------------------------------------------------ bounds
\* number of webhook deliveries (request handlers) in a run
MaxEvents == 3
\* the cache's ttl, in clock ticks (10 * 60 seconds in the program)
Ttl == 2
\* the cache's maxsize (100 in the program)
MaxSize == 1

Handlers == 1..MaxEvents
Objs == 1..MaxEvents
Keys == {"sha1", "sha2"}

\* ------------------------------------------------------------ pure helpers
RED == "LARGE RED CIRCLE"
GREEN == "LARGE GREEN CIRCLE"
YELLOW == "LARGE YELLOW CIRCLE"
LOADING == "WindowsLoading"
QUESTION == "BLACK QUESTION MARK ORNAMENT"

\* a marker chosen by the status first, the conclusion second
determine_color_by_status(conclusion, status) ==
    IF status = "queued" THEN YELLOW
    ELSE IF status = "in_progress" THEN LOADING
    ELSE IF conclusion = "failure" THEN RED
    ELSE IF conclusion = "success" THEN GREEN
    ELSE QUESTION

determine_color(conclusion, status) ==
    IF conclusion = "failure" THEN RED
    ELSE IF conclusion = "success" THEN GREEN
    ELSE IF status = "queued" THEN YELLOW
    ELSE IF status = "in_progress" THEN LOADING
    ELSE QUESTION

\* self.workflows is a dict: a sequence of [id, color, name] in insertion order
NoWorkflows == << >>

HasRun(wf, id) == \E i \in 1..Len(wf) : wf[i].id = id

\* self.workflows[run_id] = {'color': color, 'name': name}: an existing key keeps
\* its position, a new key goes last
SetWorkflow(wf, id, color, name) ==
    IF HasRun(wf, id)
    THEN [i \in 1..Len(wf) |->
            IF wf[i].id = id THEN [id |-> id, color |-> color, name |-> name]
            ELSE wf[i]]
    ELSE Append(wf, [id |-> id, color |-> color, name |-> name])

\* one line "{color} {name}" per value of the dict, joined by newlines
create_description(wf) == [i \in 1..Len(wf) |-> <<wf[i].color, wf[i].name>>]

\* discord.Embed: description None is the empty sequence, author None is NoAuthor
NoAuthor == [name |-> "", icon |-> ""]
TitleWorkflows == "Workflows"
TitleManual == "Manually Triggered Workflow"
TitlePullRequest == "Pull Request Workflows"

create_embed ==
    [title |-> TitleWorkflows, url |-> "commit", author |-> NoAuthor,
     description |-> << >>]

\* the field mutations of handle_workflow_run
handle_workflow_run(e, ev) ==
    LET e1 == IF ev.trigger = "workflow_dispatch"
              THEN [e EXCEPT !.title = TitleManual,
                             !.author = [name |-> ev.actor, icon |-> ""]]
              ELSE e
        e2 == IF ev.trigger = "pull_request"
              THEN [e1 EXCEPT !.url = IF ev.prs THEN "pulls" ELSE e1.url,
                              !.title = TitlePullRequest,
                              !.author = [name |-> ev.actor,
                                          icon |-> IF ev.avatar THEN "avatar" ELSE ""]]
              ELSE e1
    IN e2

\* ------------------------------------------------------------------ events
Event(kind, key, run_id, conclusion, status, name, trigger, prs, avatar) ==
    [kind |-> kind, key |-> key, run_id |-> run_id, conclusion |-> conclusion,
     status |-> status, name |-> name, trigger |-> trigger, actor |-> "octocat",
     prs |-> prs, avatar |-> avatar]

\* the workflow_job reports deliveries carry: run id, conclusion, status
JobReports ==
    {<<1, "null", "queued">>, <<1, "null", "in_progress">>, <<2, "failure", "completed">>}

RunIds == {jr[1] : jr \in JobReports}

\* payload['workflow_job']['workflow_name'] of the jobs of run j
WorkflowName(j) == IF j = 1 THEN "CI" ELSE "Lint"

JobEvents ==
    {Event("workflow_job", k, jr[1], jr[2], jr[3], WorkflowName(jr[1]), "", FALSE, FALSE) :
        k \in Keys, jr \in JobReports}

\* the values a workflow_job payload gives for conclusion ("null": None) and
\* status, and one of each that the program does not name
Conclusions == {"failure", "success", "null", "cancelled"}
Statuses == {"queued", "in_progress", "completed", "waiting"}

\* workflow_job events for sha1 with every pair of conclusion and status
AllJobEvents ==
    {Event("workflow_job", "sha1", j, c, st, WorkflowName(j), "", FALSE, FALSE) :
        j \in RunIds, c \in Conclusions, st \in Statuses}

RunEvents ==
    {Event("workflow_run", k, 0, "", "", "", "workflow_dispatch", FALSE, TRUE) :
        k \in Keys}
    \cup {Event("workflow_run", k, 0, "", "", "", "pull_request", p, p) :
        k \in Keys, p \in BOOLEAN}
    \cup {Event("workflow_run", k, 0, "", "", "", "push", FALSE, FALSE) : k \in Keys}

CheckEvents ==
    {Event("check_run", k, 0, "", "", "", "", FALSE, FALSE) : k \in Keys}

\* any other X-GitHub-Event
OtherEvents ==
    {Event(kind, "", 0, "", "", "", "", FALSE, FALSE) : kind \in {"check_suite"}}

\* what the history keeps of a handler's event
Seen(ev) ==
    [kind |-> ev.kind, key |-> ev.key, run_id |-> ev.run_id,
     conclusion |-> ev.conclusion, status |-> ev.status, name |-> ev.name,
     trigger |-> ev.trigger]

NoSeen ==
    [kind |-> "", key |-> "", run_id |-> 0, conclusion |-> "", status |-> "",
     name |-> "", trigger |-> ""]

\* ------------------------------------------------------------------- state
VARIABLES
    cache,      \* TTLCache: sequence of [key, obj, left, age], least recently used
                \* first; left = expires - timer(), age = time since insertion
    nobjs,      \* number of WorkflowEmbed objects constructed
    embed,      \* embed[r]: title, url, author, description of object r
    workflows,  \* workflows[r]
    message,    \* message[r]: 0 (None) or the handle of a sent message
    lock,       \* lock[r]: [holder, waiters] of the object's asyncio.Lock
    arrived,    \* number of deliveries received
    pc,         \* pc[h]: where handler h is
    obj,        \* obj[h]: the object handler h works on (0: none)
    seen,       \* seen[h]: the event of handler h
    behind,     \* behind[h]: who held the object's lock when the workflow_job
                \* handler h reached it (0: nobody)
    pub         \* pub[h]: the outbound call handler h issued

vars == <<cache, nobjs, embed, workflows, message, lock, arrived, pc, obj, seen,
          behind, pub>>

NoPub == [op |-> "none", target |-> 0, embed |-> create_embed, res |-> ""]

Init ==
    /\ cache = << >>
    /\ nobjs = 0
    /\ embed = [r \in Objs |-> create_embed]
    /\ workflows = [r \in Objs |-> NoWorkflows]
    /\ message = [r \in Objs |-> 0]
    /\ lock = [r \in Objs |-> [holder |-> 0, waiters |-> << >>]]
    /\ arrived = 0
    /\ pc = [h \in Handlers |-> "new"]
    /\ obj = [h \in Handlers |-> 0]
    /\ seen = [h \in Handlers |-> NoSeen]
    /\ behind = [h \in Handlers |-> 0]
    /\ pub = [h \in Handlers |-> NoPub]

\* ------------------------------------------------------------------- cache
\* not (timer() < link.expires)
Expired(entry) == ~(0 < entry.left)

\* TTLCache.expire
expire(c) == LET Keep(entry) == ~Expired(entry) IN SelectSeq(c, Keep)

\* key in cache
Contains(c, k) == \E i \in 1..Len(c) : c[i].key = k /\ ~Expired(c[i])

\* cache[k] for a key the cache contains
Lookup(c, k) == c[CHOOSE i \in 1..Len(c) : c[i].key = k].obj

\* a lookup that never finds the key
cache_get_none(c, k) == 0

\* cache.get(k, None): 0 is None
cache_get(c, k) == IF Contains(c, k) THEN Lookup(c, k) ELSE 0

\* a read that also restarts the entry's time to live
TouchRefresh(c, k) ==
    IF Contains(c, k)
    THEN LET Is(entry) == entry.key = k
             Not(entry) == entry.key # k
             Fresh(s) == [i \in 1..Len(s) |-> [s[i] EXCEPT !.left = Ttl]]
         IN SelectSeq(c, Not) \o Fresh(SelectSeq(c, Is))
    ELSE c

\* a successful read makes the key the most recently used
Touch(c, k) ==
    IF Contains(c, k)
    THEN LET Is(entry) == entry.key = k
             Not(entry) == entry.key # k
         IN SelectSeq(c, Not) \o SelectSeq(c, Is)
    ELSE c

\* drop least recently used entries until one more fits
Evict(c) == IF Len(c) >= MaxSize THEN SubSeq(c, Len(c) - MaxSize + 2, Len(c)) ELSE c

\* cache[k] = r
cache_set(c, k, r) ==
    LET Not(entry) == entry.key # k
        live == expire(c)
        rest == SelectSeq(live, Not)
        room == IF Len(rest) = Len(live) THEN Evict(live) ELSE rest
    IN Append(room, [key |-> k, obj |-> r, left |-> Ttl, age |-> 0])

\* ------------------------------------------------------------ asyncio.Lock
FreeLock == [holder |-> 0, waiters |-> << >>]

\* no exclusion at all
CanEnterAlways(l) == TRUE

\* Lock.acquire returns at once only when the lock is free and nobody waits
CanEnter(l) == l.holder = 0 /\ l.waiters = << >>

\* Lock.release: the first waiter is woken and takes the lock when it resumes
Release(l) == [l EXCEPT !.holder = 0]

\* ---------------------------------------------------------------- handlers
\* delivery number h arrives with event ev; the keys are interchangeable, so the
\* first delivery that carries one carries sha1
Arrive(h, ev) ==
    /\ h = arrived + 1
    /\ h = 1 => ev.key \in {"sha1", ""}
    /\ pc[h] = "new"
    /\ arrived' = h
    /\ seen' = [seen EXCEPT ![h] = Seen(ev)]

\* the snapshot an outbound call takes of the embed when it is issued
SendOf(e) == [op |-> "send", target |-> 0, embed |-> e, res |-> "inflight"]
EditOf(m, e) == [op |-> "edit", target |-> m, embed |-> e, res |-> "inflight"]

\* an event of another kind that is not filtered out: payload[event] raises
ReceiveIgnoredRaises(h) ==
    \E ev \in OtherEvents :
        /\ Arrive(h, ev)
        /\ pc' = [pc EXCEPT ![h] = "KeyError"]
        /\ UNCHANGED <<cache, nobjs, embed, workflows, message, lock, obj, behind, pub>>

\* receive_event: an event that is none of workflow_job, check_run, workflow_run
ReceiveIgnored(h) ==
    \E ev \in OtherEvents :
        /\ Arrive(h, ev)
        /\ pc' = [pc EXCEPT ![h] = "done"]
        /\ UNCHANGED <<cache, nobjs, embed, workflows, message, lock, obj, behind, pub>>

\* receive_event, obj is None: construct, (workflow_run: mutate), store, lock, send
ReceiveCreate(h) ==
    \E ev \in JobEvents \cup RunEvents \cup CheckEvents :
        /\ Arrive(h, ev)
        /\ cache_get(cache, ev.key) = 0
        /\ LET r == nobjs + 1
               e == IF ev.kind = "workflow_run"
                    THEN handle_workflow_run(create_embed, ev)
                    ELSE create_embed
           IN /\ nobjs' = r
              /\ embed' = [embed EXCEPT ![r] = e]
              /\ cache' = cache_set(cache, ev.key, r)
              /\ lock' = [lock EXCEPT ![r].holder = h]
              /\ obj' = [obj EXCEPT ![h] = r]
              /\ pub' = [pub EXCEPT ![h] = SendOf(e)]
              /\ pc' = [pc EXCEPT ![h] = "send"]
        /\ UNCHANGED <<workflows, message, behind>>

\* a handle_check_run that edits the message when there is one
ReceiveCheckRunEdits(h) ==
    \E ev \in CheckEvents :
        /\ Arrive(h, ev)
        /\ cache_get(cache, ev.key) # 0
        /\ LET r == cache_get(cache, ev.key)
           IN /\ obj' = [obj EXCEPT ![h] = r]
              /\ cache' = Touch(cache, ev.key)
              /\ IF CanEnter(lock[r]) /\ message[r] # 0
                 THEN /\ pc' = [pc EXCEPT ![h] = "edit"]
                      /\ lock' = [lock EXCEPT ![r].holder = h]
                      /\ pub' = [pub EXCEPT ![h] = EditOf(message[r], embed[r])]
                 ELSE /\ pc' = [pc EXCEPT ![h] = "done"]
                      /\ UNCHANGED <<lock, pub>>
        /\ UNCHANGED <<nobjs, embed, workflows, message, behind>>

\* receive_event, obj found, check_run: handle_check_run does nothing
ReceiveCheckRun(h) ==
    \E ev \in CheckEvents :
        /\ Arrive(h, ev)
        /\ cache_get(cache, ev.key) # 0
        /\ obj' = [obj EXCEPT ![h] = cache_get(cache, ev.key)]
        /\ cache' = Touch(cache, ev.key)
        /\ pc' = [pc EXCEPT ![h] = "done"]
        /\ UNCHANGED <<nobjs, embed, workflows, message, lock, behind, pub>>

\* receive_event, obj found, workflow_run: no branch of the else block takes it
ReceiveWorkflowRun(h) ==
    \E ev \in RunEvents :
        /\ Arrive(h, ev)
        /\ cache_get(cache, ev.key) # 0
        /\ obj' = [obj EXCEPT ![h] = cache_get(cache, ev.key)]
        /\ cache' = Touch(cache, ev.key)
        /\ pc' = [pc EXCEPT ![h] = "done"]
        /\ UNCHANGED <<nobjs, embed, workflows, message, lock, behind, pub>>

\* async with self.lock: await self.message.edit(embed=self.embed), from the
\* moment handler h has the lock of r; e is the embed of r at that moment
EnterEdit(h, r, e, l) ==
    IF message[r] = 0
    THEN /\ pc' = [pc EXCEPT ![h] = "AttributeError"]
         /\ lock' = [lock EXCEPT ![r] = Release(l)]
         /\ pub' = pub
    ELSE /\ pc' = [pc EXCEPT ![h] = "edit"]
         /\ lock' = [lock EXCEPT ![r] = [l EXCEPT !.holder = h]]
         /\ pub' = [pub EXCEPT ![h] = EditOf(message[r], e)]

\* receive_event, obj found, workflow_job: handle_workflow_job up to its first
\* suspension
handle_workflow_job(h, ev) ==
    /\ Arrive(h, ev)
    /\ cache_get(cache, ev.key) # 0
    /\ LET r == cache_get(cache, ev.key)
           wf == SetWorkflow(workflows[r], ev.run_id,
                             determine_color(ev.conclusion, ev.status), ev.name)
           e == [embed[r] EXCEPT !.description = create_description(wf)]
       IN /\ obj' = [obj EXCEPT ![h] = r]
          /\ cache' = Touch(cache, ev.key)
          /\ workflows' = [workflows EXCEPT ![r] = wf]
          /\ embed' = [embed EXCEPT ![r] = e]
          /\ behind' = [behind EXCEPT ![h] = lock[r].holder]
          /\ IF CanEnter(lock[r])
             THEN EnterEdit(h, r, e, lock[r])
             ELSE /\ pc' = [pc EXCEPT ![h] = "lockwait"]
                  /\ lock' = [lock EXCEPT ![r].waiters = Append(@, h)]
                  /\ pub' = pub
    /\ UNCHANGED <<nobjs, message>>

ReceiveWorkflowJob(h) == \E ev \in JobEvents : handle_workflow_job(h, ev)

\* the same handler, for a workflow_job event with any conclusion and status
ReceiveJobReport(h) == \E ev \in AllJobEvents : handle_workflow_job(h, ev)

\* a woken handler that sends the description as it was when it began to wait:
\* without the lines of the runs that later deliveries reported
LockAcquiredStale(h) ==
    /\ pc[h] = "lockwait"
    /\ LET r == obj[h]
           Known(line) ==
               \E g \in 1..h : obj[g] = r /\ seen[g].kind = "workflow_job"
                                /\ seen[g].name = line[2]
           e == [embed[r] EXCEPT !.description = SelectSeq(@, Known)]
       IN /\ lock[r].holder = 0
          /\ lock[r].waiters # << >>
          /\ Head(lock[r].waiters) = h
          /\ EnterEdit(h, r, e, [lock[r] EXCEPT !.waiters = Tail(@)])
    /\ UNCHANGED <<cache, nobjs, embed, workflows, message, arrived,
                   obj, seen, behind>>

\* a waiter that is woken only when no object's lock is held: one lock for all
LockAcquiredGlobal(h) ==
    /\ pc[h] = "lockwait"
    /\ \A q \in Objs : lock[q].holder = 0
    /\ LET r == obj[h]
       IN /\ lock[r].waiters # << >>
          /\ Head(lock[r].waiters) = h
          /\ EnterEdit(h, r, embed[r], [lock[r] EXCEPT !.waiters = Tail(@)])
    /\ UNCHANGED <<cache, nobjs, embed, workflows, message, arrived,
                   obj, seen, behind>>

\* a waiter that is woken although the lock is still held
LockAcquiredWhileHeld(h) ==
    /\ pc[h] = "lockwait"
    /\ LET r == obj[h]
       IN /\ lock[r].waiters # << >>
          /\ Head(lock[r].waiters) = h
          /\ EnterEdit(h, r, embed[r], [lock[r] EXCEPT !.waiters = Tail(@)])
    /\ UNCHANGED <<cache, nobjs, embed, workflows, message, arrived,
                   obj, seen, behind>>

\* a handler waiting in Lock.acquire is woken: it is the first waiter of a free lock
LockAcquired(h) ==
    /\ pc[h] = "lockwait"
    /\ LET r == obj[h]
       IN /\ lock[r].holder = 0
          /\ lock[r].waiters # << >>
          /\ Head(lock[r].waiters) = h
          /\ EnterEdit(h, r, embed[r], [lock[r] EXCEPT !.waiters = Tail(@)])
    /\ UNCHANGED <<cache, nobjs, embed, workflows, message, arrived,
                   obj, seen, behind>>

\* the object that cache[id].message = ... assigns to, once webhook.send returned
SendTarget(c, k, r) == Lookup(c, k)

\* webhook.send returns a message: cache[id].message = <it>, then the lock is left.
\* The handle of the message sent for object r is r.
SendSucceeds(h) ==
    /\ pc[h] = "send"
    /\ LET r == obj[h]
           k == seen[h].key
       IN /\ IF Contains(cache, k)
             THEN /\ message' = [message EXCEPT ![SendTarget(cache, k, r)] = r]
                  /\ cache' = Touch(cache, k)
                  /\ pc' = [pc EXCEPT ![h] = "done"]
             ELSE /\ pc' = [pc EXCEPT ![h] = "KeyError"]
                  /\ UNCHANGED <<message, cache>>
          /\ lock' = [lock EXCEPT ![r] = Release(@)]
          /\ pub' = [pub EXCEPT ![h].res = "ok"]
    /\ UNCHANGED <<nobjs, embed, workflows, arrived, obj, seen, behind>>

\* webhook.send raises
SendFails(h) ==
    /\ pc[h] = "send"
    /\ pc' = [pc EXCEPT ![h] = "DeliveryError"]
    /\ lock' = [lock EXCEPT ![obj[h]] = Release(@)]
    /\ pub' = [pub EXCEPT ![h].res = "failed"]
    /\ UNCHANGED <<cache, nobjs, embed, workflows, message, arrived,
                   obj, seen, behind>>

\* self.message.edit returns
EditSucceeds(h) ==
    /\ pc[h] = "edit"
    /\ pc' = [pc EXCEPT ![h] = "done"]
    /\ lock' = [lock EXCEPT ![obj[h]] = Release(@)]
    /\ pub' = [pub EXCEPT ![h].res = "ok"]
    /\ UNCHANGED <<cache, nobjs, embed, workflows, message, arrived,
                   obj, seen, behind>>

\* an edit that raises and leaves the lock held
EditFailsHoldingLock(h) ==
    /\ pc[h] = "edit"
    /\ pc' = [pc EXCEPT ![h] = "DeliveryError"]
    /\ pub' = [pub EXCEPT ![h].res = "failed"]
    /\ UNCHANGED <<cache, nobjs, embed, workflows, message, lock, arrived,
                   obj, seen, behind>>

\* self.message.edit raises
EditFails(h) ==
    /\ pc[h] = "edit"
    /\ pc' = [pc EXCEPT ![h] = "DeliveryError"]
    /\ lock' = [lock EXCEPT ![obj[h]] = Release(@)]
    /\ pub' = [pub EXCEPT ![h].res = "failed"]
    /\ UNCHANGED <<cache, nobjs, embed, workflows, message, arrived,
                   obj, seen, behind>>

\* time passes: every entry is one tick older
Older(entry) ==
    [entry EXCEPT !.left = IF @ > 0 THEN @ - 1 ELSE 0,
                  !.age = IF @ < Ttl THEN @ + 1 ELSE Ttl]

Tick ==
    /\ \E i \in 1..Len(cache) : cache[i].left > 0 \/ cache[i].age < Ttl
    /\ cache' = [i \in 1..Len(cache) |-> Older(cache[i])]
    /\ UNCHANGED <<nobjs, embed, workflows, message, lock, arrived, pc, obj, seen,
                   behind, pub>>

Next ==
    \/ \E h \in Handlers : ReceiveIgnored(h)
    \/ \E h \in Handlers : ReceiveCreate(h)
    \/ \E h \in Handlers : ReceiveCheckRun(h)
    \/ \E h \in Handlers : ReceiveWorkflowRun(h)
    \/ \E h \in Handlers : ReceiveWorkflowJob(h)
    \/ \E h \in Handlers : LockAcquired(h)
    \/ \E h \in Handlers : SendSucceeds(h)
    \/ \E h \in Handlers : SendFails(h)
    \/ \E h \in Handlers : EditSucceeds(h)
    \/ \E h \in Handlers : EditFails(h)
    \/ Tick

Spec == Init /\ [][Next]_vars

\* the marker of every (conclusion, status): the state after a check_run for
\* sha1 has constructed object 1 and its message was sent, from where the
\* deliveries that follow are workflow_job events for sha1 of every shape
ColorInit ==
    /\ cache = cache_set(<< >>, "sha1", 1)
    /\ nobjs = 1
    /\ embed = [r \in Objs |-> create_embed]
    /\ workflows = [r \in Objs |-> NoWorkflows]
    /\ message = [r \in Objs |-> IF r = 1 THEN 1 ELSE 0]
    /\ lock = [r \in Objs |-> FreeLock]
    /\ arrived = 1
    /\ pc = [h \in Handlers |-> IF h = 1 THEN "done" ELSE "new"]
    /\ obj = [h \in Handlers |-> IF h = 1 THEN 1 ELSE 0]
    /\ seen = [h \in Handlers |->
                IF h = 1
                THEN Seen(Event("check_run", "sha1", 0, "", "", "", "", FALSE, FALSE))
                ELSE NoSeen]
    /\ behind = [h \in Handlers |-> 0]
    /\ pub = [h \in Handlers |->
                IF h = 1 THEN [SendOf(create_embed) EXCEPT !.res = "ok"] ELSE NoPub]

ColorNext ==
    \/ \E h \in Handlers : ReceiveJobReport(h)
    \/ \E h \in Handlers : LockAcquired(h)
    \/ \E h \in Handlers : EditSucceeds(h)
    \/ \E h \in Handlers : EditFails(h)

ColorSpec == ColorInit /\ [][ColorNext]_vars

\* the event loop resumes a woken waiter, and every outbound call returns, with
\* a result or an exception
Fairness ==
    \A h \in Handlers :
        /\ WF_vars(LockAcquired(h))
        /\ WF_vars(SendSucceeds(h) \/ SendFails(h))
        /\ WF_vars(EditSucceeds(h) \/ EditFails(h))

\* the deliveries of the runs in which termination is followed: one shape of
\* each kind of event (the locks do not depend on what an event reports)
LiveEvents ==
    \A h \in Handlers :
        /\ seen[h].kind = "workflow_job" => seen[h].run_id = 1 /\ seen[h].status = "queued"
        /\ seen[h].kind = "workflow_run" => seen[h].trigger = "workflow_dispatch"

LiveNext ==
    \/ \E h \in Handlers : ReceiveIgnored(h)
    \/ \E h \in Handlers : ReceiveCreate(h) /\ LiveEvents'
    \/ \E h \in Handlers : ReceiveCheckRun(h)
    \/ \E h \in Handlers : ReceiveWorkflowRun(h) /\ LiveEvents'
    \/ \E h \in Handlers : ReceiveWorkflowJob(h) /\ LiveEvents'
    \/ \E h \in Handlers : LockAcquired(h)
    \/ \E h \in Handlers : SendSucceeds(h)
    \/ \E h \in Handlers : SendFails(h)
    \/ \E h \in Handlers : EditSucceeds(h)
    \/ \E h \in Handlers : EditFails(h)
    \/ Tick

FairSpec == Init /\ [][LiveNext]_vars /\ Fairness

\* the same, for the handlers of sha2 alone: the outbound calls for sha1 may
\* never return
KeyFairness ==
    \A h \in Handlers :
        /\ WF_vars(seen[h].key = "sha2" /\ LockAcquired(h))
        /\ WF_vars(seen[h].key = "sha2" /\ (SendSucceeds(h) \/ SendFails(h)))
        /\ WF_vars(seen[h].key = "sha2" /\ (EditSucceeds(h) \/ EditFails(h)))

KeyFairSpec == Init /\ [][LiveNext]_vars /\ KeyFairness

TypeOK ==
    /\ Len(cache) <= MaxSize
    /\ nobjs \in 0..MaxEvents
    /\ arrived \in 0..MaxEvents
    /\ \A h \in Handlers : obj[h] \in 0..nobjs

\* ------------------------------------------------------- shared vocabulary
Finished == {"done", "DeliveryError", "AttributeError", "KeyError"}

Recognized == {"workflow_job", "check_run", "workflow_run"}

\* this step is the arrival of delivery h
Arrives(h) == pc[h] = "new" /\ pc'[h] # "new"

\* the cache holds object r under key k and the entry has not expired
StoredLive(k, r) ==
    \E i \in 1..Len(cache) : cache[i].key = k /\ cache[i].obj = r /\ cache[i].left > 0

\* the lines of a description, as a set
Lines(d) == {d[i] : i \in 1..Len(d)}

\* the entries of a workflows dict for run j
EntriesOf(wf, j) == {i \in 1..Len(wf) : wf[i].id = j}

\* delivery h is the workflow_job event (key k, run j, conclusion c, status st)
IsJob(h, k, j, c, st) ==
    /\ seen[h].kind = "workflow_job"
    /\ seen[h].key = k
    /\ seen[h].run_id = j
    /\ seen[h].conclusion = c
    /\ seen[h].status = st

\* the workflow_job deliveries handled with object r that report run j
ReportsOf(r, j) ==
    {h \in 1..arrived : obj[h] = r /\ seen[h].kind = "workflow_job" /\ seen[h].run_id = j}

\* the last of them
LastReport(r, j) == CHOOSE h \in ReportsOf(r, j) : \A g \in ReportsOf(r, j) : g <= h

\* ---------------------------------------------------------------------- C1
\* C1: on an empty store, JobUpdate A (job 1, queued) creates the record and its
\* create-and-send carries exactly one summary line, job 1 Queued; JobUpdate B
\* (same key, job 1, in_progress) uses the same record and edits with the single
\* line job 1 InProgress; JobUpdate C (same key, job 2, failure) uses the same
\* record and edits with two lines, job 2 Failed and job 1 unchanged.  (The
\* events follow one another: B and C find the key in the store and the lock
\* free, A's send having returned.)
C1_EndToEnd ==
    LET A == IsJob(1, "sha1", 1, "null", "queued")
        B == IsJob(2, "sha1", 1, "null", "in_progress")
        C == IsJob(3, "sha1", 2, "failure", "completed")
        sameRecord == StoredLive("sha1", 1) /\ pc[1] = "done"
    IN /\ A => /\ obj[1] = 1
               /\ pub[1].op = "send"
               /\ pub[1].embed.description = << <<YELLOW, WorkflowName(1)>> >>
       /\ (A /\ B /\ sameRecord /\ behind[2] = 0 /\ pc[2] # "lockwait")
            => /\ obj[2] = 1
               /\ pub[2].op = "edit"
               /\ pub[2].target = message[1]
               /\ pub[2].embed.description = << <<LOADING, WorkflowName(1)>> >>
       /\ (A /\ B /\ C /\ sameRecord /\ behind[2] = 0 /\ behind[3] = 0
              /\ pc[2] \in Finished /\ pc[3] # "lockwait")
            => /\ obj[3] = 1
               /\ pub[3].op = "edit"
               /\ pub[3].target = message[1]
               /\ Len(pub[3].embed.description) = 2
               /\ Lines(pub[3].embed.description)
                    = {<<LOADING, WorkflowName(1)>>, <<RED, WorkflowName(2)>>}

\* ---------------------------------------------------------------------- C2
\* C2: after the workflow_job events handled with one object (the one that
\* constructed it included), its jobs mapping holds exactly one entry per run id
\* that was reported, with the marker and name last reported for it, and no
\* entry for a run id that was not reported.
C2_JobsMapping ==
    \A r \in Objs : \A j \in RunIds :
        IF ReportsOf(r, j) = {}
        THEN EntriesOf(workflows[r], j) = {}
        ELSE /\ Cardinality(EntriesOf(workflows[r], j)) = 1
             /\ \A i \in EntriesOf(workflows[r], j) :
                    LET last == seen[LastReport(r, j)]
                    IN /\ workflows[r][i].color
                            = determine_color(last.conclusion, last.status)
                       /\ workflows[r][i].name = last.name

\* ---------------------------------------------------------------------- C3
\* the create-and-send of object r has failed
CreateFailed(r) ==
    \E c \in Handlers : obj[c] = r /\ pub[c].op = "send" /\ pc[c] = "DeliveryError"

\* C3: a failed create-and-send leaves the object's message unset and its lock
\* free, and the next event that finds the object in the store (stated for a
\* workflow_job, the event handle_workflow_job publishes for) issues a
\* create-and-send for it, not an edit and not an error.
C3_CreateRetried ==
    [][\A h \in Handlers :
        /\ (pc[h] = "send" /\ pc'[h] = "DeliveryError")
            => (message'[obj[h]] = 0 /\ lock'[obj[h]].holder = 0)
        /\ (Arrives(h) /\ seen'[h].kind = "workflow_job"
              /\ cache_get(cache, seen'[h].key) # 0
              /\ CreateFailed(cache_get(cache, seen'[h].key))
              /\ message[cache_get(cache, seen'[h].key)] = 0)
            => /\ obj'[h] = cache_get(cache, seen'[h].key)
               /\ pc'[h] = "send"
               /\ pub'[h].op = "send"]_vars

\* ---------------------------------------------------------------------- C4
\* C4: an object's message goes from unset to a value at most once, by that
\* object's own create-and-send (whose handle is the object's number), and is
\* never assigned again.
C4_HandleSetOnce ==
    [][\A r \in Objs :
        message'[r] # message[r] => (message[r] = 0 /\ message'[r] = r)]_vars

\* ---------------------------------------------------------------------- C5
\* C5: a workflow_run event that finds an object with a message applies its
\* trigger's mutation (manual: manual title, author without avatar; pull
\* request: pull request title, author) and leads to an edit of the message.
C5_RunUpdateEdits ==
    [][\A h \in Handlers :
        LET r == cache_get(cache, seen'[h].key)
        IN (Arrives(h) /\ seen'[h].kind = "workflow_run" /\ r # 0 /\ message[r] # 0)
            => /\ seen'[h].trigger = "workflow_dispatch"
                    => /\ embed'[r].title = TitleManual
                       /\ embed'[r].author = [name |-> "octocat", icon |-> ""]
               /\ seen'[h].trigger = "pull_request"
                    => /\ embed'[r].title = TitlePullRequest
                       /\ embed'[r].author.name = "octocat"
               /\ \/ pub'[h].op = "edit" /\ pub'[h].target = message[r]
                  \/ pc'[h] = "lockwait"]_vars

\* ---------------------------------------------------------------------- C6
\* C6 as stated: a check_run event issues no outbound call and changes no field
\* of any object, whether or not its key has an object in the store.
C6_CheckRunSilent ==
    [][\A h \in Handlers :
        (Arrives(h) /\ seen'[h].kind = "check_run")
            => /\ pub' = pub
               /\ nobjs' = nobjs
               /\ UNCHANGED <<embed, workflows, message>>]_vars

\* C6 amended: a check_run event whose key has an object in the store issues no
\* outbound call and changes no field of any object; a check_run that is the
\* first event for its key constructs the object (initial title and link, no
\* summary, no message) and issues its create-and-send.
C6_CheckRunOnRecord ==
    [][\A h \in Handlers :
        (Arrives(h) /\ seen'[h].kind = "check_run")
            => IF Contains(cache, seen'[h].key)
               THEN /\ obj'[h] = Lookup(cache, seen'[h].key)
                    /\ pc'[h] = "done"
                    /\ pub' = pub
                    /\ nobjs' = nobjs
                    /\ UNCHANGED <<embed, workflows, message, lock>>
               ELSE /\ nobjs' = nobjs + 1
                    /\ obj'[h] = nobjs'
                    /\ embed'[nobjs'] = create_embed
                    /\ pub'[h] = SendOf(create_embed)
                    /\ UNCHANGED <<workflows, message>>]_vars

\* a check_run event found an object whose message was already sent
C6_Witness ==
    \E h \in Handlers :
        /\ seen[h].kind = "check_run"
        /\ pc[h] = "done"
        /\ obj[h] # 0
        /\ pub[h].op = "none"
        /\ message[obj[h]] # 0

\* ---------------------------------------------------------------------- C7
\* C7: handlers of one key interleaved at their suspension points: an event that
\* finds the key in the store works on the stored object and constructs nothing;
\* an event that does not, constructs one object, stores it and issues its
\* create-and-send; every object has exactly one create-and-send; and the object
\* stored under a key is never replaced while the key is in the store.
C7_OneRecordPerKey ==
    [][/\ \A k \in Keys :
            Contains(cache, k)
                => \A i \in 1..Len(cache') :
                        cache'[i].key = k => cache'[i].obj = Lookup(cache, k)
       /\ \A h \in Handlers :
            (Arrives(h) /\ seen'[h].kind \in Recognized)
                => IF Contains(cache, seen'[h].key)
                   THEN /\ obj'[h] = Lookup(cache, seen'[h].key)
                        /\ nobjs' = nobjs
                        /\ pub'[h].op # "send"
                   ELSE /\ nobjs' = nobjs + 1
                        /\ obj'[h] = nobjs'
                        /\ pub'[h].op = "send"
                        /\ Contains(cache', seen'[h].key)
                        /\ Lookup(cache', seen'[h].key) = nobjs'
       /\ \A r \in 1..nobjs' :
            Cardinality({h \in Handlers : obj'[h] = r /\ pub'[h].op = "send"}) = 1]_vars

\* three handlers of one key work on the one object while its send is in flight
C7_Witness ==
    /\ nobjs = 1
    /\ pc[1] = "send"
    /\ \A h \in Handlers : obj[h] = 1 /\ seen[h].key = seen[1].key

\* ---------------------------------------------------------------------- C8
\* the edits issued by handlers h1 and h2
EditsOf(h1, h2) == {h \in {h1, h2} : pub[h].op = "edit"}

C9_ExpiredIsAbsent ==
    [][\A h \in Handlers :
        LET k == seen'[h].key
            old == {i \in 1..Len(cache) : cache[i].key = k}
        IN (Arrives(h) /\ seen'[h].kind \in Recognized
              /\ old # {} /\ \A i \in old : cache[i].age >= Ttl)
            => /\ nobjs' = nobjs + 1
               /\ obj'[h] = nobjs'
               /\ \A i \in old : cache[i].obj # nobjs'
               /\ message'[nobjs'] = 0
               /\ message' = message
               /\ pub'[h].op = "send"
               /\ \A g \in Handlers \ {h} : pub'[g] = pub[g]]_vars

\* an object was stored, read by a second event before its ttl elapsed, and
\* found absent by a third event after it: the third constructed a new object
C9_Witness ==
    /\ arrived >= 3
    /\ seen[2].key = seen[1].key
    /\ seen[3].key = seen[1].key
    /\ pub[1].op = "send"
    /\ message[1] = 1
    /\ obj[2] = 1
    /\ pub[3].op = "send"
    /\ obj[3] = 2

\* --------------------------------------------------------------------- C10
\* C10: after an edit has failed, the object's message is still the one the edit
\* targeted, the mutation of that event is kept, the handler ends with the
\* delivery error, and a later workflow_job for the object edits that same
\* message with the embed the object then has.
C10_EditFailureKeepsHandle ==
    \A h \in Handlers :
        (pub[h].op = "edit" /\ pc[h] = "DeliveryError")
            => LET r == obj[h]
               IN /\ message[r] = pub[h].target
                  /\ EntriesOf(workflows[r], seen[h].run_id) # {}
                  /\ embed[r].description = create_description(workflows[r])
                  /\ pub[h].res = "failed"
                  /\ \A g \in Handlers :
                        (g > h /\ obj[g] = r /\ pub[g].op = "edit")
                            => pub[g].target = pub[h].target

\* --------------------------------------------------------------------- C11
\* the workflow_job deliveries for key k before delivery h
JobsBefore(h, k) ==
    {g \in 1..(h - 1) : seen[g].kind = "workflow_job" /\ seen[g].key = k}

\* C11: a workflow_run event with trigger workflow_dispatch that arrives before
\* any workflow_job for its key leaves the object of its key with the manual
\* title and the triggering actor as author, without avatar; and no step of a
\* workflow_job handler changes the title, url or author of any object.
C11_ManualTitleKept ==
    [][\A h \in Handlers :
        /\ (Arrives(h) /\ seen'[h].kind = "workflow_run"
              /\ seen'[h].trigger = "workflow_dispatch"
              /\ JobsBefore(h, seen'[h].key) = {})
            => /\ obj'[h] # 0
               /\ embed'[obj'[h]].title = TitleManual
               /\ embed'[obj'[h]].author = [name |-> "octocat", icon |-> ""]
        /\ (pc'[h] # pc[h] /\ seen'[h].kind = "workflow_job")
            => \A r \in Objs :
                /\ embed'[r].title = embed[r].title
                /\ embed'[r].url = embed[r].url
                /\ embed'[r].author = embed[r].author]_vars

\* --------------------------------------------------------------------- C12
\* C12: an event whose kind is none of the recognized ones is dropped before the
\* lookup: the cache (contents, order and expiry) and every object's fields and
\* lock are unchanged, no object is constructed, no outbound call is issued, and
\* the handler returns without an error.
C12_UnrecognizedDropped ==
    [][\A h \in Handlers :
        (Arrives(h) /\ seen'[h].kind \notin Recognized)
            => /\ cache' = cache
               /\ nobjs' = nobjs
               /\ UNCHANGED <<embed, workflows, message, lock>>
               /\ pub' = pub
               /\ obj'[h] = 0
               /\ pc'[h] = "done"]_vars

\* an event of another kind was dropped while an object was stored and its send
\* was in flight
C12_Witness ==
    \E h \in Handlers : \E g \in Handlers :
        /\ seen[h].kind \notin Recognized \cup {""}
        /\ pc[h] = "done"
        /\ g < h
        /\ pc[g] = "send"
        /\ Len(cache) > 0

\* --------------------------------------------------------------------- C13
\* the marker object r shows for run j
MarkerOf(r, j) ==
    workflows[r][CHOOSE i \in 1..Len(workflows[r]) : workflows[r][i].id = j].color

\* C13: for every conclusion and status a workflow_job event carries, the marker
\* recorded for its run follows the precedence: conclusion failure gives the
\* failed marker whatever the status; otherwise conclusion success gives the
\* succeeded marker whatever the status; otherwise status queued gives the
\* queued marker; otherwise status in_progress gives the in-progress marker;
\* otherwise the unknown marker.
C13_MarkerPrecedence ==
    \A r \in Objs : \A j \in RunIds :
        ReportsOf(r, j) # {} =>
            LET c == seen[LastReport(r, j)].conclusion
                st == seen[LastReport(r, j)].status
                m == MarkerOf(r, j)
            IN /\ HasRun(workflows[r], j)
               /\ c = "failure" => m = RED
               /\ c = "success" => m = GREEN
               /\ (c \notin {"failure", "success"} /\ st = "queued") => m = YELLOW
               /\ (c \notin {"failure", "success"} /\ st = "in_progress") => m = LOADING
               /\ (c \notin {"failure", "success"} /\ st \notin {"queued", "in_progress"})
                    => m = QUESTION
               /\ m \in {RED, GREEN, YELLOW, LOADING, QUESTION}

\* a failure reported with status queued shows the failed marker, and a success
\* reported with status in_progress shows the succeeded marker
C13_Witness ==
    \E g \in Handlers : \E h \in Handlers :
        /\ seen[g].kind = "workflow_job" /\ seen[h].kind = "workflow_job"
        /\ seen[g].run_id = 1 /\ seen[h].run_id = 2
        /\ seen[g].conclusion = "failure" /\ seen[g].status = "queued"
        /\ seen[h].conclusion = "success" /\ seen[h].status = "in_progress"
        /\ obj[g] = 1 /\ obj[h] = 1
        /\ HasRun(workflows[1], 1) /\ HasRun(workflows[1], 2)
        /\ MarkerOf(1, 1) = RED
        /\ MarkerOf(1, 2) = GREEN

\* --------------------------------------------------------------------- C14
\* the handlers that issued the create-and-send of object r
SendsOf(r) == {c \in Handlers : obj[c] = r /\ pub[c].op = "send"}

\* C14: every object has exactly one create-and-send; no handler attempts an
\* edit on an object whose message is unset (self.message.edit on None); and
\* every edit issued for an object targets the message of that object's own
\* create-and-send, which has returned and stored it.
C14_SendOnceBeforeEdits ==
    /\ \A r \in 1..nobjs : Cardinality(SendsOf(r)) = 1
    /\ \A h \in Handlers :
        /\ pc[h] # "AttributeError"
        /\ pub[h].op = "edit"
            => /\ pub[h].target = obj[h]
               /\ \E c \in SendsOf(obj[h]) : pc[c] = "done" /\ pub[c].res = "ok"

\* --------------------------------------------------------------------- C15
\* this step changes the jobs, title, url or author of object r
FieldsChange(r) ==
    \/ workflows'[r] # workflows[r]
    \/ embed'[r].title # embed[r].title
    \/ embed'[r].url # embed[r].url
    \/ embed'[r].author # embed[r].author

\* C15: a step that changes the jobs, title, url or author of an object is taken
\* by a handler that holds the object's lock for it (the lock it publishes
\* under): the lock was not held by anyone else, so no publish of another
\* handler for the object was in flight, and the handler holds it after the step.
C15_MutationUnderLock ==
    [][\A r \in Objs :
        FieldsChange(r)
            => /\ lock[r].holder = 0
               /\ \E h \in Handlers : pc'[h] # pc[h] /\ lock'[r].holder = h]_vars

\* --------------------------------------------------------------------- C16
\* the lines "{color} {name}" of a jobs mapping, in its order
Rendering(wf) == [i \in 1..Len(wf) |-> <<wf[i].color, wf[i].name>>]

\* the handlers that issued an outbound call for object r; the lock serves them
\* in the order of their arrival, so the last of them issued the last call
PublishersOf(r) == {h \in Handlers : obj[h] = r /\ pub[h].op # "none"}

\* C16: a workflow_job that arrives while a publish for its object is in flight
\* issues nothing and waits; when it gets the lock, the edit it issues carries
\* the object's embed as it is at that moment, whose description is the
\* rendering of the jobs mapping at that moment (the jobs of deliveries that
\* arrived during the wait included); and once every handler that works on an
\* object has returned normally, the last content sent for the object is the
\* object's final embed, the rendering of its final jobs mapping.
C16_EditRendersLatest ==
    [][/\ \A h \in Handlers :
            /\ (Arrives(h) /\ obj'[h] # 0 /\ lock[obj'[h]].holder # 0
                  /\ seen'[h].kind = "workflow_job")
                => (pc'[h] = "lockwait" /\ pub'[h] = pub[h])
            /\ (pc[h] = "lockwait" /\ pc'[h] = "edit")
                => /\ lock[obj[h]].holder = 0
                   /\ pub'[h].op = "edit"
                   /\ pub'[h].embed = embed[obj[h]]
                   /\ pub'[h].embed.description = Rendering(workflows[obj[h]])
       /\ \A r \in 1..nobjs' :
            (\A h \in Handlers : obj'[h] = r => pc'[h] = "done")
                => LET P == {h \in Handlers : obj'[h] = r /\ pub'[h].op # "none"}
                       last == CHOOSE h \in P : \A g \in P : g <= h
                   IN /\ P # {}
                      /\ pub'[last].embed = embed'[r]
                      /\ embed'[r].description = Rendering(workflows'[r])]_vars

\* delivery 2 waited behind a publish; delivery 3 reported another run during
\* the wait; the edit of delivery 2 carries both lines
C16_Witness ==
    /\ behind[2] # 0
    /\ pc[2] = "edit"
    /\ obj[3] = obj[2]
    /\ pc[3] = "lockwait"
    /\ seen[3].run_id # seen[2].run_id
    /\ Len(pub[2].embed.description) = 2

\* every handler of an object has returned normally after two edits were queued
C16_WitnessFinal ==
    /\ \A h \in Handlers : obj[h] = 1 /\ pc[h] = "done"
    /\ behind[2] # 0 /\ behind[3] # 0
    /\ seen[3].run_id # seen[2].run_id
    /\ PublishersOf(1) = Handlers

\* --------------------------------------------------------------------- C17
\* the handlers whose outbound call (send or edit) for object r is in flight
InFlight(r) == {h \in Handlers : obj[h] = r /\ pc[h] \in {"send", "edit"}}

\* C17: in every reachable state at most one outbound call is in flight for an
\* object, and the handler that issued it holds the object's lock.
C17_OnePublishInFlight ==
    \A r \in Objs :
        /\ Cardinality(InFlight(r)) <= 1
        /\ \A h \in InFlight(r) : lock[r].holder = h /\ pub[h].res = "inflight"

\* an edit is in flight for an object while another handler waits to edit it,
\* after the object's send
C17_Witness ==
    \E r \in Objs : \E h \in Handlers : \E g \in Handlers :
        /\ InFlight(r) = {h}
        /\ pub[h].op = "edit"
        /\ obj[g] = r
        /\ pc[g] = "lockwait"
        /\ lock[r].waiters = <<g>>

\* --------------------------------------------------------------------- C18
\* C18: when a send or an edit returns or raises, and when the edit cannot even
\* be issued, the handler leaves the object's lock, which is then free; so, every
\* outbound call returning in the end, every handler that waits for a lock gets
\* it and every handler that was received returns.
C18_LockReleased ==
    /\ [][\A h \in Handlers :
            (pc'[h] \in Finished
               /\ (pc[h] \in {"send", "edit"} \/ pc'[h] = "AttributeError"))
                => lock'[obj'[h]].holder = 0]_vars
    /\ [](\A r \in Objs :
            lock[r].holder # 0
                => (obj[lock[r].holder] = r /\ pc[lock[r].holder] \in {"send", "edit"}))
    /\ \A h \in Handlers : (pc[h] = "lockwait") ~> (pc[h] \in {"edit", "AttributeError"})
    /\ \A h \in Handlers : (pc[h] # "new") ~> (pc[h] \in Finished)

\* two handlers waited for the lock of one object behind its send, the send
\* failed, and all three have returned
C18_Witness ==
    /\ \A h \in Handlers : obj[h] = 1 /\ pc[h] \in Finished
    /\ pc[1] = "DeliveryError"
    /\ behind[2] = 1
    /\ behind[3] = 1
    /\ lock[1] = FreeLock

\* --------------------------------------------------------------------- C19
\* the handlers that are at a suspension point: in an outbound call or waiting
\* for a lock
Suspended(k) ==
    {g \in Handlers : seen[g].key = k /\ pc[g] \in {"send", "edit", "lockwait"}}

\* C19: handlers of different keys never share an object or a lock; an event
\* for a key none of whose handlers is suspended is handled up to its own
\* outbound call (or to its return) in the step of its arrival, whatever the
\* handlers of the other key are waiting for; and when the outbound calls for
\* sha1 never return, every handler for sha2 still returns.
C19_KeysIndependent ==
    /\ [](\A g \in Handlers : \A h \in Handlers :
            (obj[g] # 0 /\ obj[g] = obj[h]) => seen[g].key = seen[h].key)
    /\ [](\A r \in Objs : \A h \in Handlers :
            (pc[h] = "lockwait" /\ obj[h] = r /\ lock[r].holder # 0)
                => seen[lock[r].holder].key = seen[h].key)
    /\ [][\A h \in Handlers :
            (Arrives(h) /\ seen'[h].kind \in Recognized /\ Suspended(seen'[h].key) = {})
                => pc'[h] # "lockwait"]_vars
    /\ \A h \in Handlers :
            (pc[h] # "new" /\ seen[h].key = "sha2") ~> (pc[h] \in Finished)

\* the send for sha1 has not returned and a handler waits behind it, while two
\* events for sha2 were handled to the end: created and sent, looked up and edited
C19_Witness ==
    \E g \in Handlers : \E h \in Handlers : \E e \in Handlers :
        /\ seen[g].key = "sha1" /\ pc[g] = "send"
        /\ g < h /\ h < e
        /\ seen[h].key = "sha2" /\ pub[h].op = "send" /\ pc[h] = "done"
        /\ seen[e].key = "sha2" /\ pub[e].op = "edit" /\ pc[e] = "done"
        /\ obj[e] = obj[h]

\* --------------------------------------------------------------------- C20
\* C20: when the send issued for an object returns a message, that object's
\* message becomes the returned one and the message of no other object changes,
\* whether or not the object is still the one stored under its key.
C20_HandleOnOwnRecord ==
    [][\A h \in Handlers :
        (pc[h] = "send" /\ pub'[h].res = "ok")
            => /\ message'[obj[h]] = obj[h]
               /\ \A r \in Objs \ {obj[h]} : message'[r] = message[r]
               /\ pc'[h] = "done"]_vars

====
